---- MODULE Spec2Model ----
(***************************************************************************)
(* The evaluator of rusty_scheme (src/interpreter.rs) as an abstract       *)
(* machine.  Every Rust function that can call evaluate_node is split at   *)
(* its call sites: the part before the call is the action named after the  *)
(* function, the part after it is the action that resumes the function's   *)
(* activation record when the callee has returned.  `stack` is the Rust    *)
(* call stack (one record per suspended function), `ctl` is the call that  *)
(* is about to run or the Result that has just been returned, `heap` is    *)
(* the live Environment frames (Rc<RefCell<Environment>>), indexed in      *)
(* order of creation.                                                      *)
(*                                                                         *)
(* Data are tagged tuples, the tag first:                                  *)
(*   parser::Node   <<"Identifier", s>> <<"Integer", n>> <<"Boolean", b>>  *)
(*                  <<"String", s>> <<"List", <<node, ...>>>>              *)
(*   Value          <<"Symbol", s>> <<"Integer", n>> <<"Boolean", b>>      *)
(*                  <<"String", s>> <<"List", <<value, ...>>>>             *)
(*                  <<"Procedure", function>>                              *)
(*   Function       <<"NativeFunction", fn>>                               *)
(*                  <<"SchemeFunction", argNames, body>>                   *)
(***************************************************************************)
EXTENDS Integers, Sequences, FiniteSets, TLC

VARIABLES
    tokens,   \* Parser.tokens: <<the token slice, index of the next item>>
    applied,  \* history: a SchemeFunction has been applied since interpret began
    nodes,    \* the program handed to interpret
    heap,     \* the Environment frames alive, heap[1] is the root
    ctl,      \* the pending call, or the Result just returned
    stack,    \* the suspended activations, innermost last
    trace,    \* history: every <<node, env>> evaluate_node was called with
    result    \* what interpret returned, <<"None">> while it runs

vars == <<tokens, applied, nodes, heap, ctl, stack, trace, result>>

----------------------------------------------------------------------------
(* Bounds of the model.                                                    *)

\* Width in bits of the machine integer `int` of Value::Integer, scaled down.
IntBits == 6

\* Longest argument list of the generated `+` calls and longest generated
\* quote/quasiquote template list.
MaxLen == 3

\* Deepest call stack the model follows: a call is taken only while fewer
\* than MaxStack activations are suspended.
MaxStack == 10

MinInt == 0 - 2 ^ (IntBits - 1)

MaxInt == 2 ^ (IntBits - 1) - 1

----------------------------------------------------------------------------
(* parser::Node and Value constructors.                                    *)

parser_Identifier(v) == <<"Identifier", v>>

parser_Integer(v) == <<"Integer", v>>

parser_Boolean(v) == <<"Boolean", v>>

parser_String(v) == <<"String", v>>

parser_List(vec) == <<"List", vec>>

Symbol(v) == <<"Symbol", v>>

Integer(v) == <<"Integer", v>>

Boolean(v) == <<"Boolean", v>>

String(v) == <<"String", v>>

List(vec) == <<"List", vec>>

Procedure(f) == <<"Procedure", f>>

NativeFunction(fn) == <<"NativeFunction", fn>>

SchemeFunction(argNames, body) == <<"SchemeFunction", argNames, body>>

null == List(<<>>)

Ok(v) == <<"Ok", v>>

\* runtime_error!(fmt, arg): the message is kept as the format and its argument.
runtime_error(fmt, arg) == <<"Err", <<fmt, arg>>>>

----------------------------------------------------------------------------
(* Value::to_str and Value::to_raw_str.                                    *)

RECURSIVE to_raw_str(_)
RECURSIVE join_raw(_, _)

join_raw(val, i) ==
    IF i > Len(val) THEN ""
    ELSE (IF i = 1 THEN "" ELSE " ") \o to_raw_str(val[i]) \o join_raw(val, i + 1)

to_raw_str(v) ==
    CASE v[1] = "Symbol" -> v[2]
      [] v[1] = "Integer" -> ToString(v[2])
      [] v[1] = "Boolean" -> (IF v[2] THEN "#t" ELSE "#f")
      [] v[1] = "String" -> "\"" \o v[2] \o "\""
      [] v[1] = "List" -> "(" \o join_raw(v[2], 1) \o ")"
      [] v[1] = "Procedure" -> "#<procedure>"

to_str(v) ==
    IF v[1] \in {"Symbol", "List"} THEN "'" \o to_raw_str(v) ELSE to_raw_str(v)

----------------------------------------------------------------------------
(* Machine integers: `sum += x` and `result -= x` on an `int` wrap.        *)

Wrap(n) == ((n - MinInt) % (2 ^ IntBits)) + MinInt

int_add_assign(a, b) == b

int_add(a, b) == Wrap(a + b)

int_sub(a, b) == Wrap(a - b)

----------------------------------------------------------------------------
(* Environment.                                                            *)

PREDEFINED_FUNCTIONS ==
    << <<"define", NativeFunction("native_define")>>,
       <<"set!", NativeFunction("native_set")>>,
       <<"lambda", NativeFunction("native_lambda")>>,
       <<"λ", NativeFunction("native_lambda")>>,
       <<"if", NativeFunction("native_if")>>,
       <<"+", NativeFunction("native_plus")>>,
       <<"-", NativeFunction("native_minus")>>,
       <<"and", NativeFunction("native_and")>>,
       <<"or", NativeFunction("native_or")>>,
       <<"list", NativeFunction("native_list")>>,
       <<"quote", NativeFunction("native_quote")>>,
       <<"quasiquote", NativeFunction("native_quasiquote")>>,
       <<"error", NativeFunction("native_error")>> >>

\* HashMap::insert
insert(values, key, value) ==
    [k \in (DOMAIN values) \cup {key} |-> IF k = key THEN value ELSE values[k]]

RECURSIVE install(_, _)
install(values, i) ==
    IF i > Len(PREDEFINED_FUNCTIONS) THEN values
    ELSE install(insert(values, PREDEFINED_FUNCTIONS[i][1],
                        Procedure(PREDEFINED_FUNCTIONS[i][2])), i + 1)

new_root == [parent |-> 0, values |-> install(<<>>, 1)]

new_child_of_root(parent) == [parent |-> 1, values |-> <<>>]

new_child(parent) == [parent |-> parent, values |-> <<>>]

set_in_parent(h, e, key, value) ==
    LET t == IF h[e].parent = 0 THEN e ELSE h[e].parent
    IN  [h EXCEPT ![t].values = insert(h[t].values, key, value)]

set(h, e, key, value) == [h EXCEPT ![e].values = insert(h[e].values, key, value)]

has(h, e, key) == key \in DOMAIN h[e].values

RECURSIVE get(_, _, _)
get(h, e, key) ==
    IF key \in DOMAIN h[e].values THEN <<"Some", h[e].values[key]>>
    ELSE IF h[e].parent # 0 THEN get(h, h[e].parent, key)
    ELSE <<"None">>

----------------------------------------------------------------------------
(* The call stack.                                                         *)

Top == stack[Len(stack)]

Rest == SubSeq(stack, 1, Len(stack) - 1)

Returned == ctl[1] = "Ok" /\ Len(stack) > 0

\* The frame a suspended apply_function owns (its procEnv), 0 for the others.
procEnv_of(frame) ==
    CASE frame[1] = "apply_function" -> frame[7]
      [] frame[1] = "apply_function_body" -> frame[2]
      [] OTHER -> 0

\* Dropping an activation drops the Rc it owns: procEnv dies with its call.
drop(h, frame) ==
    IF procEnv_of(frame) # 0 THEN SubSeq(h, 1, procEnv_of(frame) - 1) ELSE h

----------------------------------------------------------------------------
(* interpret, evaluate_nodes, evaluate_node, evaluate_expression.          *)

\* for node in nodes.iter() { result = try!(evaluate_node(node, env)) }
evaluate_nodes ==
    /\ ctl[1] = "evaluate_nodes"
    /\ Len(stack) < MaxStack
    /\ IF Len(ctl[2]) = 0
       THEN /\ ctl' = Ok(null)
            /\ stack' = stack
       ELSE /\ ctl' = <<"evaluate_node", ctl[2][1], ctl[3]>>
            /\ stack' = Append(stack, <<"evaluate_nodes", ctl[2], 1, ctl[3]>>)
    /\ UNCHANGED <<tokens, applied, nodes, heap, trace, result>>

evaluate_nodes_next ==
    /\ Returned
    /\ Top[1] = "evaluate_nodes"
    /\ LET ns == Top[2]  i == Top[3]  env == Top[4] IN
       IF i < Len(ns)
       THEN /\ ctl' = <<"evaluate_node", ns[i + 1], env>>
            /\ stack' = Append(Rest, <<"evaluate_nodes", ns, i + 1, env>>)
       ELSE /\ ctl' = ctl
            /\ stack' = Rest
    /\ UNCHANGED <<tokens, applied, nodes, heap, trace, result>>

evaluate_node ==
    /\ ctl[1] = "evaluate_node"
    /\ Len(stack) < MaxStack
    /\ LET node == ctl[2]  env == ctl[3] IN
       /\ trace' = Append(trace, <<node, env>>)
       /\ ctl' =
            CASE node[1] = "Identifier" ->
                   (LET r == get(heap, env, node[2]) IN
                    IF r[1] = "Some" THEN Ok(r[2])
                    ELSE runtime_error("Identifier not found: {}", node))
              [] node[1] = "Integer" -> Ok(Integer(node[2]))
              [] node[1] = "Boolean" -> Ok(Boolean(node[2]))
              [] node[1] = "String" -> Ok(String(node[2]))
              [] node[1] = "List" ->
                   IF Len(node[2]) > 0
                   THEN <<"evaluate_expression", node[2], env>>
                   ELSE Ok(null)
    /\ UNCHANGED <<tokens, applied, nodes, heap, stack, result>>

\* Its only caller, evaluate_node, passes a non-empty list: the first test
\* never succeeds.
evaluate_expression ==
    /\ ctl[1] = "evaluate_expression"
    /\ Len(stack) < MaxStack
    /\ IF Len(ctl[2]) = 0
       THEN /\ ctl' = runtime_error("Can't evaluate an empty expression: {}", ctl[2])
            /\ stack' = stack
       ELSE /\ ctl' = <<"evaluate_node", ctl[2][1], ctl[3]>>
            /\ stack' = Append(stack, <<"evaluate_expression", ctl[2], ctl[3]>>)
    /\ UNCHANGED <<tokens, applied, nodes, heap, trace, result>>

evaluate_expression_first ==
    /\ Returned
    /\ Top[1] = "evaluate_expression"
    /\ LET first == ctl[2] IN
       ctl' = IF first[1] = "Procedure"
              THEN <<"apply_function", first[2], Tail(Top[2]), Top[3]>>
              ELSE runtime_error(
                     "First element in an expression must be a procedure: {}", first)
    /\ stack' = Rest
    /\ UNCHANGED <<tokens, applied, nodes, heap, trace, result>>

----------------------------------------------------------------------------
(* apply_function on a SchemeFunction.                                     *)

apply_function ==
    /\ ctl[1] = "apply_function"
    /\ Len(stack) < MaxStack
    /\ ctl[2][1] = "SchemeFunction"
    /\ LET argNames == ctl[2][2]  body == ctl[2][3]  args == ctl[3]  env == ctl[4] IN
       IF Len(argNames) # Len(args)
       THEN /\ ctl' = runtime_error("Must supply exactly {} arguments to function: {}",
                                    <<Len(argNames), args>>)
            /\ UNCHANGED <<heap, stack>>
       ELSE LET procEnv == Len(heap) + 1 IN
            /\ heap' = Append(heap, new_child(env))
            /\ IF Len(args) = 0
               THEN /\ ctl' = <<"evaluate_nodes", body, procEnv>>
                    /\ stack' = Append(stack, <<"apply_function_body", procEnv>>)
               ELSE /\ ctl' = <<"evaluate_node", args[1], env>>
                    /\ stack' = Append(stack, <<"apply_function", argNames, args,
                                                body, 1, env, procEnv>>)
    /\ applied' = TRUE
    /\ UNCHANGED <<tokens, nodes, trace, result>>

\* procEnv.borrow_mut().set(name.clone(), val), then the next argument or the body
apply_function_arg ==
    /\ Returned
    /\ Top[1] = "apply_function"
    /\ LET argNames == Top[2]  args == Top[3]  body == Top[4]
           i == Top[5]  env == Top[6]  procEnv == Top[7] IN
       /\ heap' = set(heap, procEnv, argNames[i], ctl[2])
       /\ IF i < Len(args)
          THEN /\ ctl' = <<"evaluate_node", args[i + 1], env>>
               /\ stack' = Append(Rest, <<"apply_function", argNames, args,
                                          body, i + 1, env, procEnv>>)
          ELSE /\ ctl' = <<"evaluate_nodes", body, procEnv>>
               /\ stack' = Append(Rest, <<"apply_function_body", procEnv>>)
    /\ UNCHANGED <<tokens, applied, nodes, trace, result>>

\* Ok(try!(evaluate_nodes(body, procEnv)))
apply_function_return ==
    /\ Returned
    /\ Top[1] = "apply_function_body"
    /\ ctl' = ctl
    /\ stack' = Rest
    /\ heap' = drop(heap, Top)
    /\ UNCHANGED <<tokens, applied, nodes, trace, result>>

----------------------------------------------------------------------------
(* The native procedures.  Each starts with its own args.len() check.      *)

IsNative(fn) ==
    /\ ctl[1] = "apply_function"
    /\ Len(stack) < MaxStack
    /\ ctl[2][1] = "NativeFunction"
    /\ ctl[2][2] = fn

arity_ok_lax(fn, n) ==
    CASE fn \in {"native_define", "native_set", "native_minus"} -> n >= 2
      [] fn = "native_if" -> n >= 3
      [] fn \in {"native_quote", "native_quasiquote", "native_error"} -> n >= 1
      [] fn \in {"native_lambda", "native_plus"} -> n >= 2
      [] OTHER -> TRUE

\* The args.len() test at the head of the native procedure fn.
arity_ok(fn, n) ==
    CASE fn \in {"native_define", "native_set", "native_minus"} -> n = 2
      [] fn = "native_if" -> n = 3
      [] fn \in {"native_quote", "native_quasiquote", "native_error"} -> n = 1
      [] fn \in {"native_lambda", "native_plus"} -> n >= 2
      [] OTHER -> TRUE

native_define ==
    /\ IsNative("native_define")
    /\ LET args == ctl[3]  env == ctl[4] IN
       IF ~arity_ok("native_define", Len(args))
       THEN /\ ctl' = runtime_error("Must supply exactly two arguments to define: {}", args)
            /\ stack' = stack
       ELSE IF args[1][1] # "Identifier"
       THEN /\ ctl' = runtime_error("Unexpected node for name in define: {}", args)
            /\ stack' = stack
       ELSE IF ~has(heap, env, args[1][2])
       THEN /\ ctl' = <<"evaluate_node", args[2], env>>
            /\ stack' = Append(stack, <<"native_define", args[1][2], env>>)
       ELSE /\ ctl' = runtime_error("Duplicate define: {}", args[1][2])
            /\ stack' = stack
    /\ UNCHANGED <<tokens, applied, nodes, heap, trace, result>>

\* env.borrow_mut().set(name.clone(), val); Ok(null!())
native_define_set ==
    /\ Returned
    /\ Top[1] = "native_define"
    /\ heap' = set(heap, Top[3], Top[2], ctl[2])
    /\ ctl' = Ok(null)
    /\ stack' = Rest
    /\ UNCHANGED <<tokens, applied, nodes, trace, result>>

native_set ==
    /\ IsNative("native_set")
    /\ LET args == ctl[3]  env == ctl[4] IN
       IF ~arity_ok("native_set", Len(args))
       THEN /\ ctl' = runtime_error("Must supply exactly two arguments to set!: {}", args)
            /\ stack' = stack
       ELSE IF args[1][1] # "Identifier"
       THEN /\ ctl' = runtime_error("Unexpected node for name in set!: {}", args)
            /\ stack' = stack
       ELSE IF has(heap, env, args[1][2])
       THEN /\ ctl' = <<"evaluate_node", args[2], env>>
            /\ stack' = Append(stack, <<"native_set", args[1][2], env>>)
       ELSE /\ ctl' = runtime_error("Can't set! an undefined variable: {}", args[1][2])
            /\ stack' = stack
    /\ UNCHANGED <<tokens, applied, nodes, heap, trace, result>>

native_set_set ==
    /\ Returned
    /\ Top[1] = "native_set"
    /\ heap' = set(heap, Top[3], Top[2], ctl[2])
    /\ ctl' = Ok(null)
    /\ stack' = Rest
    /\ UNCHANGED <<tokens, applied, nodes, trace, result>>

\* The names of a parameter list, or the first item that is no identifier.
RECURSIVE lambda_names(_, _, _)
lambda_names(list, i, names) ==
    IF i > Len(list) THEN <<"Ok", names>>
    ELSE IF list[i][1] = "Identifier"
    THEN lambda_names(list, i + 1, Append(names, list[i][2]))
    ELSE <<"Err", list[i]>>

native_lambda ==
    /\ IsNative("native_lambda")
    /\ LET args == ctl[3] IN
       ctl' = IF ~arity_ok("native_lambda", Len(args))
              THEN runtime_error("Must supply at least two arguments to lambda: {}", args)
              ELSE IF args[1][1] # "List"
              THEN runtime_error("Unexpected node for arguments in lambda: {}", args)
              ELSE LET r == lambda_names(args[1][2], 1, <<>>) IN
                   IF r[1] = "Err"
                   THEN runtime_error("Unexpected argument in lambda arguments: {}", r[2])
                   ELSE Ok(Procedure(SchemeFunction(r[2], Tail(args))))
    /\ UNCHANGED <<tokens, applied, nodes, heap, stack, trace, result>>

native_if ==
    /\ IsNative("native_if")
    /\ LET args == ctl[3]  env == ctl[4] IN
       IF ~arity_ok("native_if", Len(args))
       THEN /\ ctl' = runtime_error("Must supply exactly three arguments to if: {}", args)
            /\ stack' = stack
       ELSE /\ ctl' = <<"evaluate_node", args[1], env>>
            /\ stack' = Append(stack, <<"native_if", args, env>>)
    /\ UNCHANGED <<tokens, applied, nodes, heap, trace, result>>

if_branch_falsy(condition) ==
    IF \/ (condition[1] = "Boolean" /\ condition[2] = FALSE)
       \/ (condition[1] = "Integer" /\ condition[2] = 0)
       \/ (condition[1] = "List" /\ Len(condition[2]) = 0)
    THEN 3 ELSE 2

\* match condition { Boolean(false) => args.get(2), _ => args.get(1) }, 1-based
if_branch(condition) ==
    IF condition[1] = "Boolean" /\ condition[2] = FALSE THEN 3 ELSE 2

native_if_condition ==
    /\ Returned
    /\ Top[1] = "native_if"
    /\ ctl' = <<"evaluate_node", Top[2][if_branch(ctl[2])], Top[3]>>
    /\ stack' = Rest
    /\ UNCHANGED <<tokens, applied, nodes, heap, trace, result>>

native_plus ==
    /\ IsNative("native_plus")
    /\ LET args == ctl[3]  env == ctl[4] IN
       IF ~arity_ok("native_plus", Len(args))
       THEN /\ ctl' = runtime_error("Must supply at least two arguments to +: {}", args)
            /\ stack' = stack
       ELSE /\ ctl' = <<"evaluate_node", args[1], env>>
            /\ stack' = Append(stack, <<"native_plus", args, 1, 0, env>>)
    /\ UNCHANGED <<tokens, applied, nodes, heap, trace, result>>

native_plus_next ==
    /\ Returned
    /\ Top[1] = "native_plus"
    /\ LET args == Top[2]  i == Top[3]  sum == Top[4]  env == Top[5]  v == ctl[2] IN
       IF v[1] # "Integer"
       THEN /\ ctl' = runtime_error("Unexpected node during +: {}", args[i])
            /\ stack' = Rest
       ELSE IF i < Len(args)
       THEN /\ ctl' = <<"evaluate_node", args[i + 1], env>>
            /\ stack' = Append(Rest, <<"native_plus", args, i + 1,
                                       int_add(sum, v[2]), env>>)
       ELSE /\ ctl' = Ok(Integer(int_add(sum, v[2])))
            /\ stack' = Rest
    /\ UNCHANGED <<tokens, applied, nodes, heap, trace, result>>

native_minus ==
    /\ IsNative("native_minus")
    /\ LET args == ctl[3]  env == ctl[4] IN
       IF ~arity_ok("native_minus", Len(args))
       THEN /\ ctl' = runtime_error("Must supply exactly two arguments to -: {}", args)
            /\ stack' = stack
       ELSE /\ ctl' = <<"evaluate_node", args[1], env>>
            /\ stack' = Append(stack, <<"native_minus_l", args, env>>)
    /\ UNCHANGED <<tokens, applied, nodes, heap, trace, result>>

native_minus_l ==
    /\ Returned
    /\ Top[1] = "native_minus_l"
    /\ ctl' = <<"evaluate_node", Top[2][2], Top[3]>>
    /\ stack' = Append(Rest, <<"native_minus_r", Top[2], ctl[2], Top[3]>>)
    /\ UNCHANGED <<tokens, applied, nodes, heap, trace, result>>

native_minus_r ==
    /\ Returned
    /\ Top[1] = "native_minus_r"
    /\ LET args == Top[2]  l == Top[3]  r == ctl[2] IN
       ctl' = IF l[1] # "Integer" \/ r[1] # "Integer"
              THEN runtime_error("Unexpected node during -: {}", args)
              ELSE Ok(Integer(int_sub(l[2], r[2])))
    /\ stack' = Rest
    /\ UNCHANGED <<tokens, applied, nodes, heap, trace, result>>

native_and ==
    /\ IsNative("native_and")
    /\ LET args == ctl[3]  env == ctl[4] IN
       IF Len(args) = 0
       THEN /\ ctl' = Ok(Boolean(TRUE))
            /\ stack' = stack
       ELSE /\ ctl' = <<"evaluate_node", args[1], env>>
            /\ stack' = Append(stack, <<"native_and", args, 1, env>>)
    /\ UNCHANGED <<tokens, applied, nodes, heap, trace, result>>

native_and_next ==
    /\ Returned
    /\ Top[1] = "native_and"
    /\ LET args == Top[2]  i == Top[3]  env == Top[4]  v == ctl[2] IN
       IF v[1] = "Boolean" /\ v[2] = FALSE
       THEN /\ ctl' = Ok(Boolean(FALSE))
            /\ stack' = Rest
       ELSE IF i < Len(args)
       THEN /\ ctl' = <<"evaluate_node", args[i + 1], env>>
            /\ stack' = Append(Rest, <<"native_and", args, i + 1, env>>)
       ELSE /\ ctl' = Ok(v)
            /\ stack' = Rest
    /\ UNCHANGED <<tokens, applied, nodes, heap, trace, result>>

native_or ==
    /\ IsNative("native_or")
    /\ LET args == ctl[3]  env == ctl[4] IN
       IF Len(args) = 0
       THEN /\ ctl' = Ok(Boolean(FALSE))
            /\ stack' = stack
       ELSE /\ ctl' = <<"evaluate_node", args[1], env>>
            /\ stack' = Append(stack, <<"native_or", args, 1, env>>)
    /\ UNCHANGED <<tokens, applied, nodes, heap, trace, result>>

native_or_next ==
    /\ Returned
    /\ Top[1] = "native_or"
    /\ LET args == Top[2]  i == Top[3]  env == Top[4]  v == ctl[2] IN
       IF ~(v[1] = "Boolean" /\ v[2] = FALSE)
       THEN /\ ctl' = Ok(v)
            /\ stack' = Rest
       ELSE IF i < Len(args)
       THEN /\ ctl' = <<"evaluate_node", args[i + 1], env>>
            /\ stack' = Append(Rest, <<"native_or", args, i + 1, env>>)
       ELSE /\ ctl' = Ok(Boolean(FALSE))
            /\ stack' = Rest
    /\ UNCHANGED <<tokens, applied, nodes, heap, trace, result>>

native_list ==
    /\ IsNative("native_list")
    /\ LET args == ctl[3]  env == ctl[4] IN
       IF Len(args) = 0
       THEN /\ ctl' = Ok(List(<<>>))
            /\ stack' = stack
       ELSE /\ ctl' = <<"evaluate_node", args[1], env>>
            /\ stack' = Append(stack, <<"native_list", args, 1, <<>>, env>>)
    /\ UNCHANGED <<tokens, applied, nodes, heap, trace, result>>

native_list_next ==
    /\ Returned
    /\ Top[1] = "native_list"
    /\ LET args == Top[2]  i == Top[3]  elements == Top[4]  env == Top[5] IN
       IF i < Len(args)
       THEN /\ ctl' = <<"evaluate_node", args[i + 1], env>>
            /\ stack' = Append(Rest, <<"native_list", args, i + 1,
                                       Append(elements, ctl[2]), env>>)
       ELSE /\ ctl' = Ok(List(Append(elements, ctl[2])))
            /\ stack' = Rest
    /\ UNCHANGED <<tokens, applied, nodes, heap, trace, result>>

native_quote ==
    /\ IsNative("native_quote")
    /\ LET args == ctl[3]  env == ctl[4] IN
       ctl' = IF ~arity_ok("native_quote", Len(args))
              THEN runtime_error("Must supply exactly one argument to quote: {}", args)
              ELSE <<"quote_node", args[1], FALSE, env>>
    /\ UNCHANGED <<tokens, applied, nodes, heap, stack, trace, result>>

native_quasiquote ==
    /\ IsNative("native_quasiquote")
    /\ LET args == ctl[3]  env == ctl[4] IN
       ctl' = IF ~arity_ok("native_quasiquote", Len(args))
              THEN runtime_error("Must supply exactly one argument to quasiquote: {}", args)
              ELSE <<"quote_node", args[1], TRUE, env>>
    /\ UNCHANGED <<tokens, applied, nodes, heap, stack, trace, result>>

native_error ==
    /\ IsNative("native_error")
    /\ LET args == ctl[3]  env == ctl[4] IN
       IF ~arity_ok("native_error", Len(args))
       THEN /\ ctl' = runtime_error("Must supply exactly one arguments to error: {}", args)
            /\ stack' = stack
       ELSE /\ ctl' = <<"evaluate_node", args[1], env>>
            /\ stack' = Append(stack, <<"native_error", env>>)
    /\ UNCHANGED <<tokens, applied, nodes, heap, trace, result>>

\* runtime_error!("{}", e): the message is the value's Show form
native_error_raise ==
    /\ Returned
    /\ Top[1] = "native_error"
    /\ ctl' = runtime_error("{}", to_str(ctl[2]))
    /\ stack' = Rest
    /\ UNCHANGED <<tokens, applied, nodes, heap, trace, result>>

----------------------------------------------------------------------------
(* quote_node.                                                             *)

is_unquote_any(quasi, vec) ==
    /\ Len(vec) > 0
    /\ vec[1][1] = "Identifier"
    /\ vec[1][2] = "unquote"

is_unquote_never(quasi, vec) == FALSE

\* quasi && vec.len() > 0 && *vec.get(0) == parser::Identifier("unquote")
is_unquote(quasi, vec) ==
    /\ quasi
    /\ Len(vec) > 0
    /\ vec[1][1] = "Identifier"
    /\ vec[1][2] = "unquote"

quoted_whole(vec, i) == parser_List(vec)

\* for n in vec.iter(): the n of quote_node(n, quasi, env.clone())
quoted(vec, i) == vec[i]

quote_node ==
    /\ ctl[1] = "quote_node"
    /\ Len(stack) < MaxStack
    /\ LET node == ctl[2]  quasi == ctl[3]  env == ctl[4] IN
       CASE node[1] = "Identifier" -> ctl' = Ok(Symbol(node[2])) /\ stack' = stack
         [] node[1] = "Integer" -> ctl' = Ok(Integer(node[2])) /\ stack' = stack
         [] node[1] = "Boolean" -> ctl' = Ok(Boolean(node[2])) /\ stack' = stack
         [] node[1] = "String" -> ctl' = Ok(String(node[2])) /\ stack' = stack
         [] node[1] = "List" ->
              LET vec == node[2] IN
              IF is_unquote(quasi, vec)
              THEN /\ ctl' = IF Len(vec) # 2
                             THEN runtime_error(
                                    "Must supply exactly one argument to unquote: {}", vec)
                             ELSE <<"evaluate_node", vec[2], env>>
                   /\ stack' = stack
              ELSE IF Len(vec) = 0
              THEN /\ ctl' = Ok(List(<<>>))
                   /\ stack' = stack
              ELSE /\ ctl' = <<"quote_node", quoted(vec, 1), quasi, env>>
                   /\ stack' = Append(stack, <<"quote_node", vec, 1, <<>>, quasi, env>>)
    /\ UNCHANGED <<tokens, applied, nodes, heap, trace, result>>

\* res.push(v), then the next element or Ok(List(res))
quote_node_next ==
    /\ Returned
    /\ Top[1] = "quote_node"
    /\ LET vec == Top[2]  i == Top[3]  res == Top[4]  quasi == Top[5]  env == Top[6] IN
       IF i < Len(vec)
       THEN /\ ctl' = <<"quote_node", quoted(vec, i + 1), quasi, env>>
            /\ stack' = Append(Rest, <<"quote_node", vec, i + 1,
                                       Append(res, ctl[2]), quasi, env>>)
       ELSE /\ ctl' = Ok(List(Append(res, ctl[2])))
            /\ stack' = Rest
    /\ UNCHANGED <<tokens, applied, nodes, heap, trace, result>>

----------------------------------------------------------------------------
(* try!: an Err returned to a suspended activation is returned by it.      *)

try_recover_in_or(frame, err) ==
    IF frame[1] = "native_or" THEN Ok(Boolean(FALSE)) ELSE err

\* try!(e): Err(e) => return Err(e)
try(frame, err) == err

try_err ==
    /\ ctl[1] = "Err"
    /\ Len(stack) > 0
    /\ ctl' = try(Top, ctl)
    /\ stack' = Rest
    /\ heap' = drop(heap, Top)
    /\ UNCHANGED <<tokens, applied, nodes, trace, result>>

\* interpret returns what evaluate_nodes(nodes, env) returned
interpret_return ==
    /\ ctl[1] \in {"Ok", "Err"}
    /\ Len(stack) = 0
    /\ result = <<"None">>
    /\ result' = ctl
    /\ UNCHANGED <<tokens, applied, nodes, heap, ctl, stack, trace>>

----------------------------------------------------------------------------
(* The programs interpret is run on.                                       *)

Id(s) == parser_Identifier(s)

Num(n) == parser_Integer(n)

Ls(vec) == parser_List(vec)

Call(head, args) == Ls(<<Id(head)>> \o args)

SeqsOf(S, lo, hi) == UNION {[1..k -> S] : k \in lo..hi}

Copies(n, node) == [k \in 1..n |-> node]

Define(name, node) == Call("define", <<Id(name), node>>)

Lambda(params, body) == Call("lambda", <<Ls([k \in 1..Len(params) |-> Id(params[k])])>> \o body)

DefineZ == Define("z", Num(1))

ErrorCall(s) == Call("error", <<parser_String(s)>>)

\* (+ e1 .. en) and (- e1 e2) on literals at the ends of the int range, a
\* variable, and values that are no Integer.
ArithAtoms ==
    {Num(1), Num(MaxInt), Num(MinInt), Id("x"), parser_Boolean(TRUE), parser_String("s")}

PlusPrograms ==
    {<<Define("x", Num(2)), Call("+", args)>> : args \in SeqsOf(ArithAtoms, 2, MaxLen)}

MinusPrograms ==
    {<<Define("x", Num(2)), Call("-", args)>> : args \in SeqsOf(ArithAtoms, 2, 2)}

ArithFixed ==
    { <<Call("+", <<Call("+", <<Num(1), Num(2)>>), Call("-", <<Num(5), Num(3)>>)>>)>>,
      <<Call("+", <<Num(1), Id("u"), DefineZ>>)>>,
      <<Call("+", <<Num(1), Ls(<<>>), DefineZ>>)>>,
      <<Call("-", <<parser_Boolean(TRUE), DefineZ>>), Id("z")>>,
      <<Call("+", <<Num(1), Id("+")>>)>> }

\* Templates for quote and quasiquote.
TemplateAtoms == {Id("a"), Id("x"), Id("unquote"), Num(1), parser_Boolean(FALSE)}

Templates1 == {Ls(vec) : vec \in SeqsOf(TemplateAtoms, 0, MaxLen)}

TemplateParts ==
    { Id("a"), Num(1), parser_String("s"), Ls(<<>>),
      Call("unquote", <<Id("x")>>),
      Call("unquote", <<Id("a")>>),
      Call("unquote", <<>>),
      Call("unquote", <<Call("+", <<Id("x"), Num(1)>>)>>),
      Call("quote", <<Call("unquote", <<Id("x")>>)>>),
      Call("quasiquote", <<Call("unquote", <<Id("x")>>)>>),
      Ls(<<Id("a"), Call("unquote", <<Id("x")>>)>>) }

Templates2 == {Ls(vec) : vec \in SeqsOf(TemplateParts, 1, 2)}

TemplatesDeep ==
    { Call("unquote", <<Call("quote", <<Call("unquote", <<Id("x")>>)>>)>>),
      Call("unquote", <<Call("quasiquote", <<Call("unquote", <<Id("x")>>)>>)>>),
      Call("unquote", <<Call("list", <<Call("unquote", <<Id("x")>>)>>)>>),
      Call("unquote", <<DefineZ>>),
      Ls(<<Id("a"), Ls(<<Id("b"), Ls(<<Id("c"), Call("unquote", <<Id("x")>>)>>)>>)>>),
      Ls(<<Call("unquote", <<Id("x")>>), Call("unquote", <<Num(1), Num(2)>>), DefineZ>>) }

Templates ==
    TemplateAtoms \cup {parser_String("s")} \cup Templates1 \cup Templates2
    \cup TemplatesDeep

QuotePrograms == {<<Call("quote", <<t>>)>> : t \in Templates}

QuasiquotePrograms ==
    {<<Define("x", Num(5)), Call("quasiquote", <<t>>)>> : t \in Templates}

\* (if C X Y)
IfConditions ==
    { parser_Boolean(FALSE), parser_Boolean(TRUE), Num(0), parser_String("s"),
      Ls(<<>>), Call("quote", <<Id("a")>>), Call("quote", <<Ls(<<>>)>>), Id("if"),
      Id("x"), Call("list", <<>>), Lambda(<<"a">>, <<Id("a")>>),
      Call("-", <<Num(5), Num(5)>>), Call("or", <<>>), Id("u"), ErrorCall("c") }

IfBranches == {Num(1), Num(2), ErrorCall("x"), Define("a", Num(3)), Define("b", Num(4))}

IfPrograms ==
    {<<Define("x", parser_Boolean(FALSE)), Call("if", <<c, x, y>>)>> :
        c \in IfConditions, x \in IfBranches, y \in IfBranches}

\* Every native procedure, and a user procedure of two parameters, applied to
\* 0..MaxLen+1 arguments whose evaluation would leave a mark.
NativeNames ==
    {"define", "set!", "lambda", "λ", "if", "+", "-", "and", "or", "list",
     "quote", "quasiquote", "error"}

ArityArgs == {Num(1), DefineZ, Id("u")}

ArityPrograms ==
    {<<Call(name, Copies(n, arg))>> :
        name \in NativeNames, n \in 0..(MaxLen + 1), arg \in ArityArgs}
    \cup
    {<<Define("f", Lambda(<<"a", "b">>, <<Id("a")>>)), Call("f", Copies(n, arg))>> :
        n \in 0..(MaxLen + 1), arg \in ArityArgs}
    \cup
    {<<Define("f", Lambda(<<>>, <<Num(7)>>)), Call("f", Copies(n, arg))>> :
        n \in 0..1, arg \in ArityArgs}

\* A failing node in every position a construct evaluates, followed by a
\* top-level define that must not run.
FailingNodes ==
    { Id("u"),
      Ls(<<Num(1), Num(2)>>),
      Call("+", <<Num(1), parser_Boolean(TRUE)>>),
      Call("-", <<Num(1)>>),
      Define("x", Num(1)),
      Call("set!", <<Id("u"), Num(1)>>),
      Call("quasiquote", <<Call("unquote", <<>>)>>),
      ErrorCall("e"),
      Call("f", <<>>),
      Num(3) }

Contexts(e) ==
    { e,
      Call("or", <<parser_Boolean(FALSE), e, DefineZ>>),
      Call("and", <<parser_Boolean(TRUE), e, DefineZ>>),
      Call("list", <<Num(1), e, DefineZ>>),
      Call("if", <<e, DefineZ, DefineZ>>),
      Call("if", <<parser_Boolean(TRUE), e, DefineZ>>),
      Call("if", <<parser_Boolean(FALSE), DefineZ, e>>),
      Call("+", <<Num(1), e, DefineZ>>),
      Call("-", <<e, DefineZ>>),
      Call("f", <<e>>),
      Ls(<<Lambda(<<"a">>, <<e, DefineZ>>), Num(1)>>),
      Call("quasiquote", <<Ls(<<Num(1), Call("unquote", <<e>>), Call("unquote", <<DefineZ>>)>>)>>),
      Define("w", e),
      Call("set!", <<Id("x"), e>>),
      Call("error", <<e>>),
      Ls(<<e, DefineZ>>) }

ErrorPrograms ==
    {<<Define("x", Num(5)), Define("f", Lambda(<<"a">>, <<Id("a")>>)), c, DefineZ>> :
        c \in UNION {Contexts(e) : e \in FailingNodes}}

\* Scoping, define and set!, and the two tests of src/interpreter.rs.
test_global_variables ==
    <<Define("x", Num(2)), Call("+", <<Id("x"), Id("x"), Id("x")>>)>>

test_global_function_definition ==
    <<Define("double", Lambda(<<"x">>, <<Call("+", <<Id("x"), Id("x")>>)>>)),
      Call("double", <<Num(8)>>)>>

SetGlobalFromBody ==
    <<Define("x", Num(1)),
      Define("f", Lambda(<<"a">>, <<Call("set!", <<Id("x"), Num(2)>>)>>)),
      Call("f", <<Num(0)>>)>>

DefineInsideDefine == <<Define("x", Define("x", Num(1)))>>

ArgumentOrder ==
    <<Define("f", Lambda(<<"a", "b">>, <<Call("list", <<Id("a"), Id("b")>>)>>)),
      Define("n", Num(1)),
      Call("f", <<Call("set!", <<Id("n"), Num(2)>>), Id("n")>>)>>

LocalDefineAndSet ==
    <<Define("x", Num(9)),
      Define("f", Lambda(<<"a">>, <<Define("x", Id("a")),
                                    Call("set!", <<Id("x"), Num(4)>>), Id("x")>>)),
      Call("f", <<Num(3)>>), Id("x")>>

DefineInArgument ==
    <<Define("x", Num(9)),
      Define("f", Lambda(<<"a">>, <<Define("y", Num(8)), Id("y")>>)),
      Call("f", <<Define("y", Num(3))>>), Id("y")>>

DynamicScope ==
    <<Define("y", Num(1)),
      Define("g", Lambda(<<"a">>, <<Id("y")>>)),
      Define("h", Lambda(<<"y">>, <<Call("g", <<Num(0)>>)>>)),
      Call("h", <<Num(7)>>)>>

ScopePrograms ==
    { test_global_variables, test_global_function_definition,
      SetGlobalFromBody, DefineInsideDefine, DynamicScope, ArgumentOrder,
      LocalDefineAndSet,
      <<>>,
      <<Ls(<<>>)>>,
      <<Define("x", Num(1)), Call("set!", <<Id("x"), Num(2)>>), Id("x")>>,
      <<Call("set!", <<Id("y"), Num(1)>>)>>,
      <<Call("set!", <<Id("+"), Num(1)>>), Id("+")>>,
      <<Define("x", Num(1)), Call("set!", <<Id("x"), Call("set!", <<Id("x"), Num(2)>>)>>), Id("x")>>,
      <<Define("f", Lambda(<<"a">>, <<Call("set!", <<Id("a"), Num(2)>>), Id("a")>>)),
        Call("f", <<Num(0)>>)>>,
      <<Define("x", Num(1)),
        Define("f", Lambda(<<"a">>, <<Call("set!", <<Id("a"), Id("x")>>), Id("a")>>)),
        Call("f", <<Num(0)>>)>>,
      <<Define("x", Num(1)), Define("x", Num(2))>>,
      <<Define("define", Num(1))>>,
      <<Define("x", Define("y", Num(1))), Id("x")>>,
      <<Define("x", Call("list", <<Define("x", Num(1)), Id("x")>>)), Id("x")>>,
      <<Define("f", Lambda(<<"a">>, <<Define("x", Define("x", Id("a"))), Id("x")>>)),
        Call("f", <<Num(3)>>)>>,
      DefineInArgument,
      <<Define("g", Lambda(<<"b">>, <<Define("x", Id("b")), Id("x")>>)),
        Define("f", Lambda(<<"a">>, <<Call("g", <<Define("x", Id("a"))>>), Id("x")>>)),
        Call("f", <<Num(3)>>)>>,
      <<Define("f", Lambda(<<"a", "a">>, <<Id("a")>>)), Call("f", <<Num(1), Num(2)>>)>>,
      <<Define("k", Lambda(<<>>, <<Id("q")>>)),
        Define("f", Lambda(<<"q">>, <<Call("k", <<>>)>>)),
        Call("f", <<Num(4)>>)>>,
      <<Define("k", Lambda(<<>>, <<Id("q")>>)), Call("k", <<>>)>>,
      <<Call("λ", <<Ls(<<Id("a")>>), Id("a")>>)>>,
      <<Ls(<<Call("λ", <<Ls(<<Id("a")>>), Id("a")>>), Num(6)>>)>>,
      <<Call("lambda", <<Id("a"), Num(1)>>)>>,
      <<Call("lambda", <<Ls(<<Id("a"), Num(1)>>), Num(1)>>)>>,
      <<Define("b", Num(5)), Call("list", <<Call("quote", <<Id("a")>>), Id("b")>>)>>,
      <<Call("and", <<Num(1), Num(2)>>)>>,
      <<Call("and", <<parser_Boolean(FALSE), ErrorCall("x")>>)>>,
      <<Call("or", <<parser_Boolean(FALSE), parser_Boolean(FALSE)>>)>>,
      <<Call("or", <<Num(1), ErrorCall("x")>>)>>,
      <<Call("error", <<Call("quote", <<Ls(<<Id("a"), Num(1), parser_String("s"),
                                             parser_Boolean(TRUE), Ls(<<Id("b")>>)>>)>>)>>)>>,
      <<Call("error", <<Id("error")>>)>> }

\* (define f (lambda (x) (f x))) (f 1)
Runaway ==
    <<Define("f", Lambda(<<"x">>, <<Call("f", <<Id("x")>>)>>)), Call("f", <<Num(1)>>)>>

\* (define g (lambda () (+ 1 (g)))) (g)
RunawayInArgument ==
    <<Define("g", Lambda(<<>>, <<Call("+", <<Num(1), Call("g", <<>>)>>)>>)),
      Call("g", <<>>)>>

\* head applied to one argument after another, d deep, around atom:
\* (+ 1 (+ 1 ... )), (list (list ... )), (if (if ... 1 2) 1 2), and the
\* literal list ((( ... ))) that NestedPrograms puts under quote
RECURSIVE Nested(_, _, _)
Nested(shape, d, atom) ==
    IF d = 0 THEN atom
    ELSE LET inner == Nested(shape, d - 1, atom) IN
         CASE shape = "+" -> Call("+", <<Num(1), inner>>)
           [] shape = "list" -> Call("list", <<inner>>)
           [] shape = "if" -> Call("if", <<inner, Num(1), Num(2)>>)
           [] shape = "literal" -> Ls(<<inner>>)

NestShapes == {"+", "list", "if"}

\* Programs of builtins alone, nested as deep as the model follows.
NestedPrograms ==
    {<<Nested(shape, d, Num(1))>> : shape \in NestShapes, d \in 1..(MaxStack - 2)}
    \cup
    {<<Call(q, <<Nested("literal", d, Id("a"))>>)>> :
        q \in {"quote", "quasiquote"}, d \in 0..(MaxStack - 3)}

RunawayPrograms == {Runaway, RunawayInArgument}

Programs ==
    PlusPrograms \cup MinusPrograms \cup ArithFixed \cup QuotePrograms
    \cup QuasiquotePrograms \cup IfPrograms \cup ArityPrograms \cup ErrorPrograms
    \cup ScopePrograms \cup NestedPrograms \cup RunawayPrograms

----------------------------------------------------------------------------
(* interpret(nodes): env = Environment::new_root(); evaluate_nodes(nodes, env) *)

Init ==
    /\ tokens = <<<<>>, 1>>
    /\ applied = FALSE
    /\ nodes \in Programs
    /\ heap = <<new_root>>
    /\ ctl = <<"evaluate_nodes", nodes, 1>>
    /\ stack = <<>>
    /\ trace = <<>>
    /\ result = <<"None">>

Next ==
    \/ evaluate_nodes
    \/ evaluate_nodes_next
    \/ evaluate_node
    \/ evaluate_expression
    \/ evaluate_expression_first
    \/ apply_function
    \/ apply_function_arg
    \/ apply_function_return
    \/ native_define
    \/ native_define_set
    \/ native_set
    \/ native_set_set
    \/ native_lambda
    \/ native_if
    \/ native_if_condition
    \/ native_plus
    \/ native_plus_next
    \/ native_minus
    \/ native_minus_l
    \/ native_minus_r
    \/ native_and
    \/ native_and_next
    \/ native_or
    \/ native_or_next
    \/ native_list
    \/ native_list_next
    \/ native_quote
    \/ native_quasiquote
    \/ native_error
    \/ native_error_raise
    \/ quote_node
    \/ quote_node_next
    \/ try_err
    \/ interpret_return

Spec == Init /\ [][Next]_vars

\* The evaluator is one thread that runs until it returns or the process
\* ends: a step that can be taken is taken.
FairSpec == Spec /\ WF_vars(Next)

Done == result # <<"None">>

----------------------------------------------------------------------------
(* Vocabulary of the properties.                                           *)

Range(seq) == {seq[i] : i \in 1..Len(seq)}

\* The names a program bound in frame e (the builtins of the root set aside).
UserNames(h, e) == (DOMAIN h[e].values) \ NativeNames

\* The environment a suspended activation evaluates its sub-expressions in.
env_of(frame) ==
    CASE frame[1] = "evaluate_nodes" -> frame[4]
      [] frame[1] = "evaluate_expression" -> frame[3]
      [] frame[1] = "apply_function" -> frame[6]
      [] frame[1] = "apply_function_body" -> frame[2]
      [] frame[1] \in {"native_define", "native_set", "native_if", "native_minus_l"} -> frame[3]
      [] frame[1] \in {"native_minus_r", "native_and", "native_or"} -> frame[4]
      [] frame[1] \in {"native_plus", "native_list"} -> frame[5]
      [] frame[1] = "quote_node" -> frame[6]
      [] frame[1] = "native_error" -> frame[2]

IsSchemeCall == ctl[1] = "apply_function" /\ ctl[2][1] = "SchemeFunction"

----------------------------------------------------------------------------
(* C1 *)

SetCalled ==
    /\ IsNative("native_set")
    /\ Len(ctl[3]) = 2
    /\ ctl[3][1][1] = "Identifier"

\* C1: a set! of a bare identifier n executed against frame F fails exactly
\* when n is bound in no frame of the chain from F to the root; when it goes
\* on and its value has been computed it returns the empty list and a lookup
\* of n from F then yields that value.
C1_SetFailsOnlyWhenUnboundInChain ==
    [][ /\ SetCalled =>
             ((ctl'[1] = "Err") <=> (get(heap, ctl[4], ctl[3][1][2])[1] = "None"))
        /\ (Returned /\ Top[1] = "native_set") =>
             /\ ctl' = Ok(null)
             /\ get(heap', Top[3], Top[2]) = <<"Some", ctl[2]>> ]_vars

----------------------------------------------------------------------------
(* C2 *)

\* C2: define never replaces a binding: when a define is about to write n
\* into frame F and n is bound in F at that moment, it fails instead and F
\* is left as it was; a define of a name bound in F when the define starts
\* fails without evaluating anything.
C2_DefineNeverReplaces ==
    [][ /\ (Returned /\ Top[1] = "native_define" /\ has(heap, Top[3], Top[2])) =>
             (ctl'[1] = "Err" /\ heap' = heap)
        /\ ( /\ IsNative("native_define")
             /\ Len(ctl[3]) = 2
             /\ ctl[3][1][1] = "Identifier"
             /\ has(heap, ctl[4], ctl[3][1][2]) ) =>
             (ctl' = runtime_error("Duplicate define: {}", ctl[3][1][2]) /\ heap' = heap)
      ]_vars

----------------------------------------------------------------------------
(* C3 *)

\* Every frame a suspended user-procedure call owns hangs off the
\* environment its call expression is being evaluated in, and holds exactly
\* the parameters bound so far.
CallFramesHangOffCallSite ==
    \A k \in 1..Len(stack) :
        procEnv_of(stack[k]) # 0 =>
            /\ k > 1
            /\ procEnv_of(stack[k]) \in 2..Len(heap)
            /\ heap[procEnv_of(stack[k])].parent = env_of(stack[k - 1])
            /\ stack[k][1] = "apply_function" =>
                 /\ stack[k][6] = env_of(stack[k - 1])
                 /\ DOMAIN heap[stack[k][7]].values =
                        {stack[k][2][j] : j \in 1..(stack[k][5] - 1)}

\* What one step of a call does: the application creates the one new frame,
\* a child of the call-site environment; each argument is evaluated in the
\* call-site environment, in order, and bound to its parameter in the new
\* frame; the body sequence is then evaluated in the new frame.  No other
\* step creates a frame.
CallStep ==
    /\ (IsSchemeCall /\ Len(ctl[2][2]) = Len(ctl[3])) =>
         /\ Len(heap') = Len(heap) + 1
         /\ SubSeq(heap', 1, Len(heap)) = heap
         /\ heap'[Len(heap')].parent = ctl[4]
         /\ DOMAIN heap'[Len(heap')].values = {}
         /\ ctl' = IF Len(ctl[3]) > 0
                   THEN <<"evaluate_node", ctl[3][1], ctl[4]>>
                   ELSE <<"evaluate_nodes", ctl[2][3], Len(heap')>>
    /\ (Returned /\ Top[1] = "apply_function") =>
         /\ Len(heap') = Len(heap)
         /\ heap'[Top[7]].values[Top[2][Top[5]]] = ctl[2]
         /\ ctl' = IF Top[5] < Len(Top[3])
                   THEN <<"evaluate_node", Top[3][Top[5] + 1], Top[6]>>
                   ELSE <<"evaluate_nodes", Top[4], Top[7]>>
    /\ Len(heap') > Len(heap) => (IsSchemeCall /\ Len(ctl[2][2]) = Len(ctl[3]))

\* The free identifier y of g's body is read from the frame of g's caller h,
\* the parameter x of double from the call's own frame, and the arguments
\* of a call are evaluated left to right in the caller's frame.
CallResults ==
    Done =>
      /\ nodes = test_global_function_definition => result = Ok(Integer(16))
      /\ nodes = DynamicScope => result = Ok(Integer(7))
      /\ nodes = ArgumentOrder => result = Ok(List(<<null, Integer(2)>>))

\* C3: every application of a user procedure to the right number of
\* arguments creates exactly one frame, a child of the call-site
\* environment, binds the parameters there to the arguments evaluated left
\* to right in the call-site environment and evaluates the body in the new
\* frame; (double 8) yields 16.
C3_CallCreatesChildOfCallSite ==
    /\ [](CallFramesHangOffCallSite /\ CallResults)
    /\ [][CallStep]_vars

\* A call made from inside another call's body: the inner frame's parent is
\* the outer call's frame, not the root the procedure was defined in.
C3_Witness ==
    /\ nodes = DynamicScope
    /\ Len(stack) > 0
    /\ Top[1] = "evaluate_nodes"
    /\ Len(heap) = 3
    /\ heap[3].parent = 2
    /\ ctl = Ok(Integer(7))

----------------------------------------------------------------------------
(* C4 *)

\* While the body of a call is being evaluated no step changes a frame that
\* existed before the call.
BodyLeavesOlderFramesAlone ==
    \A k \in 1..Len(stack) :
        stack[k][1] = "apply_function_body" =>
            \A e \in 1..(stack[k][2] - 1) : heap'[e] = heap[e]

\* The write of a define or set! goes to the frame it was executed against
\* and changes no other frame.
WritesOwnFrameOnly ==
    (Returned /\ Top[1] \in {"native_define", "native_set"}) =>
        /\ Len(heap') = Len(heap)
        /\ \A e \in 1..Len(heap) : e # Top[3] => heap'[e] = heap[e]
        /\ Top[2] \in DOMAIN heap'[Top[3]].values
        /\ heap'[Top[3]].values[Top[2]] = ctl[2]

\* After f has defined and assigned an x of its own the root's x is still 9;
\* after the argument (define y 3) and the body's own (define y 8) the root
\* holds the argument's y.
CallerFrameResults ==
    Done =>
      /\ nodes = LocalDefineAndSet =>
            (result = Ok(Integer(9)) /\ UserNames(heap, 1) = {"x", "f"})
      /\ nodes = DefineInArgument =>
            (result = Ok(Integer(3)) /\ UserNames(heap, 1) = {"x", "f", "y"})

\* C4: define and set! write only to the frame they are executed against;
\* evaluating the body of a user procedure adds, removes or changes no
\* binding of a frame that existed before the call, so when the call returns
\* those frames are as they were after the arguments were evaluated.
C4_BodyKeepsCallerFrames ==
    /\ [][BodyLeavesOlderFramesAlone /\ WritesOwnFrameOnly]_vars
    /\ []CallerFrameResults

\* The body has defined x in its own frame and assigned it, the root holds
\* its own x untouched.
C4_Witness ==
    /\ nodes = LocalDefineAndSet
    /\ Len(heap) = 2
    /\ Len(stack) > 1
    /\ stack[2][1] = "apply_function_body"
    /\ "x" \in DOMAIN heap[2].values
    /\ heap[2].values["x"] = Integer(4)
    /\ heap[1].values["x"] = Integer(9)

----------------------------------------------------------------------------
(* C5 *)

\* The argument counts the claim calls wrong, by procedure.
WrongArity(f, n) ==
    IF f[1] = "SchemeFunction" THEN n # Len(f[2])
    ELSE CASE f[2] \in {"native_define", "native_set", "native_minus"} -> n # 2
           [] f[2] = "native_if" -> n # 3
           [] f[2] \in {"native_quote", "native_quasiquote", "native_error"} -> n # 1
           [] f[2] \in {"native_lambda", "native_plus"} -> n < 2
           [] OTHER -> FALSE

WrongCount(name, n) ==
    CASE name \in {"define", "set!", "-"} -> n # 2
      [] name = "if" -> n # 3
      [] name \in {"quote", "quasiquote", "error"} -> n # 1
      [] name \in {"lambda", "λ", "+"} -> n < 2
      [] OTHER -> FALSE

\* A builtin called at top level with a wrong count: interpret fails having
\* evaluated the form and its head only, the root as it was made.  The
\* two-parameter f called with another count: the error names the count 2,
\* and no argument has run.
ArityResults ==
    Done =>
      /\ ( /\ nodes \in ArityPrograms
           /\ Len(nodes) = 1
           /\ WrongCount(nodes[1][2][1][2], Len(nodes[1][2]) - 1) ) =>
              /\ result[1] = "Err"
              /\ Len(trace) = 2
              /\ heap = <<new_root>>
      /\ \A n \in 0..(MaxLen + 1) : \A arg \in ArityArgs :
            ( /\ n # 2
              /\ nodes = <<Define("f", Lambda(<<"a", "b">>, <<Id("a")>>)),
                           Call("f", Copies(n, arg))>> ) =>
              /\ result = runtime_error("Must supply exactly {} arguments to function: {}",
                                        <<2, Copies(n, arg)>>)
              /\ UserNames(heap, 1) = {"f"}
              /\ Len(heap) = 1

\* C5: a procedure applied to a wrong number of argument nodes fails at
\* once: the application returns an error, no node has been evaluated, no
\* frame created and no binding changed.
C5_ArityCheckedFirst ==
    /\ [][ (ctl[1] = "apply_function" /\ WrongArity(ctl[2], Len(ctl[3]))) =>
               /\ ctl'[1] = "Err"
               /\ heap' = heap
               /\ trace' = trace
               /\ stack' = stack ]_vars
    /\ []ArityResults

\* (- (define z 1) (define z 1) (define z 1)) has failed and z is unbound.
C5_Witness ==
    /\ nodes = <<Call("-", Copies(3, DefineZ))>>
    /\ ctl[1] = "Err"
    /\ Len(trace) = 2
    /\ heap = <<new_root>>

----------------------------------------------------------------------------
(* C6 *)

Count(seq, x) == Cardinality({i \in 1..Len(seq) : seq[i] = x})

\* The conditions of IfPrograms that evaluate to Boolean false (x is bound
\* to #f there), and those whose evaluation fails.
FalseConditions == {parser_Boolean(FALSE), Id("x"), Call("or", <<>>)}

FailingConditions == {Id("u"), ErrorCall("c")}

\* What evaluating a branch of IfPrograms at top level returns and binds.
BranchResult(b) ==
    CASE b = Num(1) -> Ok(Integer(1))
      [] b = Num(2) -> Ok(Integer(2))
      [] b = ErrorCall("x") -> runtime_error("{}", "\"x\"")
      [] OTHER -> Ok(null)

BranchNames(b) ==
    IF b = Define("a", Num(3)) THEN {"a"}
    ELSE IF b = Define("b", Num(4)) THEN {"b"}
    ELSE {}

\* When the condition has been evaluated, the next thing evaluated is the
\* else branch for Boolean false and the then branch for every other value,
\* and the `if` is over: nothing of it stays on the stack.
IfStep ==
    (Returned /\ Top[1] = "native_if") =>
        /\ ctl' = <<"evaluate_node",
                    IF ctl[2] = Boolean(FALSE) THEN Top[2][3] ELSE Top[2][2],
                    Top[3]>>
        /\ stack' = Rest
        /\ heap' = heap

\* (define x #f) (if C X Y): over the evaluations that follow those of the
\* define, of the form and of its head, C is evaluated once, the selected branch once, the other never; the
\* result and the bindings of the root are those of the selected branch.
IfResults ==
    (Done /\ nodes \in IfPrograms) =>
        LET c == nodes[2][2][2]
            x == nodes[2][2][3]
            y == nodes[2][2][4]
            t == SubSeq(trace, 6, Len(trace))
            sel == IF c \in FalseConditions THEN y ELSE x
            other == IF c \in FalseConditions THEN x ELSE y
        IN  /\ Count(t, <<c, 1>>) = 1
            /\ IF c \in FailingConditions
               THEN /\ result[1] = "Err"
                    /\ Count(t, <<x, 1>>) = 0
                    /\ Count(t, <<y, 1>>) = 0
                    /\ UserNames(heap, 1) = {"x"}
               ELSE /\ Count(t, <<sel, 1>>) = 1
                    /\ other # sel => Count(t, <<other, 1>>) = 0
                    /\ result = BranchResult(sel)
                    /\ UserNames(heap, 1) = {"x"} \cup BranchNames(sel)

\* C6: (if C X Y) evaluates C once and then exactly one of X and Y: Y when
\* C is Boolean false, X for every other value; the other branch is never
\* evaluated, so an error or a define in it has no effect.
C6_IfEvaluatesOneBranch ==
    /\ []IfResults
    /\ [][IfStep]_vars

\* Integer 0 selects the then branch: a is defined, the error never raised.
C6_Witness ==
    /\ nodes = <<Define("x", parser_Boolean(FALSE)),
                 Call("if", <<Num(0), Define("a", Num(3)), ErrorCall("x")>>)>>
    /\ Done
    /\ result = Ok(null)
    /\ UserNames(heap, 1) = {"a", "x"}

----------------------------------------------------------------------------
(* C7 *)

IsUnquoteList(node) ==
    /\ node[1] = "List"
    /\ Len(node[2]) > 0
    /\ node[2][1] = Id("unquote")

\* Every sub-list of a template headed by unquote, wherever it is.
RECURSIVE AllUnquoteLists(_)
AllUnquoteLists(node) ==
    IF node[1] # "List" THEN {}
    ELSE (IF IsUnquoteList(node) THEN {node} ELSE {})
         \cup UNION {AllUnquoteLists(node[2][i]) : i \in 1..Len(node[2])}

\* Those that do not lie inside the argument of another one.
RECURSIVE OuterUnquoteLists(_)
OuterUnquoteLists(node) ==
    IF node[1] # "List" THEN {}
    ELSE IF IsUnquoteList(node) THEN {node}
    ELSE UNION {OuterUnquoteLists(node[2][i]) : i \in 1..Len(node[2])}

\* The value of the unquote arguments of Templates where x is 5 and every
\* other identifier but the builtins is unbound.
UnquoteValue(arg) ==
    CASE arg = Id("x") -> Ok(Integer(5))
      [] arg[1] = "Identifier" /\ arg # Id("x") -> <<"Err">>
      [] arg[1] \in {"Integer", "Boolean", "String"} -> Ok(arg)
      [] arg = Call("+", <<Id("x"), Num(1)>>) -> Ok(Integer(6))
      [] arg = Call("quote", <<Call("unquote", <<Id("x")>>)>>) ->
             Ok(List(<<Symbol("unquote"), Symbol("x")>>))
      [] arg = Call("quasiquote", <<Call("unquote", <<Id("x")>>)>>) -> Ok(Integer(5))
      [] arg = DefineZ -> Ok(null)
      [] OTHER -> <<"Err">>

\* The template with every outer unquote list replaced by the value of its
\* argument and every other node taken literally.
RECURSIVE Quasiquoted(_)
Quasiquoted(node) ==
    CASE node[1] = "Identifier" -> Ok(Symbol(node[2]))
      [] node[1] \in {"Integer", "Boolean", "String"} -> Ok(node)
      [] node[1] = "List" ->
           IF IsUnquoteList(node)
           THEN (IF Len(node[2]) # 2 THEN <<"Err">> ELSE UnquoteValue(node[2][2]))
           ELSE LET parts == [i \in 1..Len(node[2]) |-> Quasiquoted(node[2][i])] IN
                IF \E i \in 1..Len(parts) : parts[i][1] = "Err" THEN <<"Err">>
                ELSE Ok(List([i \in 1..Len(parts) |-> parts[i][2]]))

\* In quasi mode the quoter hands the argument of an unquote list to the
\* evaluator, in the environment of the quasiquote, in place of the list.
UnquoteStep ==
    /\ (ctl[1] = "quote_node" /\ ctl[3] /\ IsUnquoteList(ctl[2])) =>
          /\ stack' = stack
          /\ ctl' = IF Len(ctl[2][2]) = 2
                    THEN <<"evaluate_node", ctl[2][2][2], ctl[4]>>
                    ELSE runtime_error("Must supply exactly one argument to unquote: {}",
                                       ctl[2][2])
    /\ IsNative("native_quasiquote") /\ Len(ctl[3]) = 1 =>
          ctl' = <<"quote_node", ctl[3][1], TRUE, ctl[4]>>
    /\ (Returned /\ Top[1] = "quote_node" /\ ctl'[1] = "quote_node") =>
          (ctl'[3] = Top[5] /\ ctl'[4] = Top[6])

\* C7 as stated: every sub-list of T headed by unquote, at any depth, has
\* its one argument evaluated in the quasiquote's environment, and one with
\* another number of arguments makes the quasiquote fail.
C7_EveryUnquoteListEvaluated ==
    (Done /\ nodes \in QuasiquotePrograms) =>
        LET T == nodes[2][2][2] IN
        /\ (\E u \in AllUnquoteLists(T) : Len(u[2]) # 2) => result[1] = "Err"
        /\ result[1] = "Ok" =>
             \A u \in AllUnquoteLists(T) : <<u[2][2], 1>> \in Range(trace)

\* C7, amended: the sub-lists of T headed by unquote that are not inside the
\* argument of another such list are replaced by the value of their one
\* argument, evaluated in the quasiquote's environment (one with another
\* number of arguments makes the quasiquote fail); every other node is
\* converted literally.
C7_OuterUnquoteListsEvaluated ==
    /\ []((Done /\ nodes \in QuasiquotePrograms) =>
            LET T == nodes[2][2][2] IN
            /\ (\E u \in OuterUnquoteLists(T) : Len(u[2]) # 2) => result[1] = "Err"
            /\ result[1] = "Ok" =>
                 \A u \in OuterUnquoteLists(T) : <<u[2][2], 1>> \in Range(trace)
            /\ IF Quasiquoted(T)[1] = "Err" THEN result[1] = "Err"
               ELSE result = Quasiquoted(T))
    /\ [][UnquoteStep]_vars

\* `((quasiquote (unquote x)) (quote (unquote x))) with x = 5: both inner
\* lists stay lists, and the x of each is 5
C7_Witness ==
    /\ Done
    /\ nodes = <<Define("x", Num(5)),
                 Call("quasiquote",
                      <<Ls(<<Call("quasiquote", <<Call("unquote", <<Id("x")>>)>>),
                             Call("quote", <<Call("unquote", <<Id("x")>>)>>)>>)>>)>>
    /\ result = Ok(List(<<List(<<Symbol("quasiquote"), Integer(5)>>),
                          List(<<Symbol("quote"), Integer(5)>>)>>))

----------------------------------------------------------------------------
(* C8 *)

RECURSIVE Quoted(_)
Quoted(node) ==
    CASE node[1] = "Identifier" -> Symbol(node[2])
      [] node[1] = "Integer" -> Integer(node[2])
      [] node[1] = "Boolean" -> Boolean(node[2])
      [] node[1] = "String" -> String(node[2])
      [] node[1] = "List" -> List([i \in 1..Len(node[2]) |-> Quoted(node[2][i])])

\* Outside quasi mode the quoter only builds values: it calls nothing but
\* itself, in the same mode, and touches neither a frame nor the evaluator.
QuoteStep ==
    /\ (ctl[1] = "quote_node" /\ ~ctl[3]) =>
          /\ ctl'[1] \in {"Ok", "quote_node"}
          /\ ctl'[1] = "quote_node" => ~ctl'[3]
          /\ heap' = heap
          /\ trace' = trace
    /\ (Returned /\ Top[1] = "quote_node" /\ ~Top[5]) =>
          /\ ctl'[1] \in {"Ok", "quote_node"}
          /\ ctl'[1] = "quote_node" => ~ctl'[3]
          /\ heap' = heap
          /\ trace' = trace
    /\ IsNative("native_quote") /\ Len(ctl[3]) = 1 =>
          ctl' = <<"quote_node", ctl[3][1], FALSE, ctl[4]>>

\* C8: (quote X) succeeds for every node X with the literal value of X
\* (identifiers as Symbols, bound or not, lists element by element, a list
\* headed by unquote like any other), evaluates nothing of X and changes no
\* frame.
C8_QuoteIsLiteral ==
    /\ []((Done /\ nodes \in QuotePrograms) =>
            /\ result = Ok(Quoted(nodes[1][2][2]))
            /\ heap = <<new_root>>
            /\ trace = << <<nodes[1], 1>>, <<Id("quote"), 1>> >>)
    /\ [][QuoteStep]_vars

\* (quote ((unquote x) a)): x and a are unbound
C8_Witness ==
    /\ Done
    /\ nodes = <<Call("quote", <<Ls(<<Call("unquote", <<Id("x")>>), Id("a")>>)>>)>>
    /\ result = Ok(List(<<List(<<Symbol("unquote"), Symbol("x")>>), Symbol("a")>>))

----------------------------------------------------------------------------
(* C9 *)

\* Once an error has been returned, a step only passes the same error on (or
\* hands it out as the result of interpret): no node is evaluated, no frame
\* created, no binding changed.
ErrStep ==
    ctl[1] = "Err" =>
        /\ ctl' = ctl
        /\ trace' = trace
        /\ Len(heap') <= Len(heap)
        /\ heap' = SubSeq(heap, 1, Len(heap'))
        /\ Len(stack') <= Len(stack)
        /\ result' = IF Len(stack) = 0 THEN ctl ELSE result

ErrorProgram(c) ==
    <<Define("x", Num(5)), Define("f", Lambda(<<"a">>, <<Id("a")>>)), c, DefineZ>>

\* The programs of ErrorPrograms whose marked node fails when evaluated.
FailingPrograms ==
    {ErrorProgram(c) : c \in UNION {Contexts(e) : e \in FailingNodes \ {Num(3)}}}

\* interpret returns the error that was raised; in FailingPrograms the define
\* of z that follows the failing node, in its construct and at top level, has
\* not run; (error "e") comes out of every construct as it was raised.
ErrResults ==
    Done =>
        /\ ctl[1] = "Err" => result = ctl
        /\ (nodes \in FailingPrograms /\ result[1] = "Err") =>
              /\ "z" \notin DOMAIN heap[1].values
              /\ UserNames(heap, 1) = {"x", "f"}
        /\ \A c \in Contexts(ErrorCall("e")) :
              nodes = ErrorProgram(c) => result = runtime_error("{}", "\"e\"")

\* C9: error propagation is short-circuiting: after the first failure no
\* node is evaluated and no binding created or changed, and interpret
\* returns exactly that error; no construct recovers from it.
C9_ErrorsShortCircuit ==
    /\ []ErrResults
    /\ [][ErrStep]_vars

\* The error of (or #f (error "e") (define z 1)) is on its way out through
\* the suspended `or`.
C9_Witness ==
    /\ nodes = ErrorProgram(Call("or", <<parser_Boolean(FALSE), ErrorCall("e"), DefineZ>>))
    /\ ctl = runtime_error("{}", "\"e\"")
    /\ Len(stack) > 0
    /\ Top[1] = "native_or"

----------------------------------------------------------------------------
(* C10 *)

IsIntegerArg(a) == a[1] = "Integer" \/ a = Id("x")

\* The Integer an argument of PlusPrograms and MinusPrograms evaluates to
\* (x is 2).
ArgValue(a) == IF a[1] = "Integer" THEN a[2] ELSE 2

RECURSIVE SumOf(_)
SumOf(args) == IF Len(args) = 0 THEN 0 ELSE ArgValue(Head(args)) + SumOf(Tail(args))

\* C10 as stated: (+ e1 .. en) is Integer(a1 + .. + an) and (- e1 e2) is
\* Integer(a1 - a2) for all Integer arguments.
C10_ExactSum ==
    Done =>
        /\ nodes \in PlusPrograms =>
             LET args == Tail(nodes[2][2]) IN
             (\A i \in 1..Len(args) : IsIntegerArg(args[i])) =>
                 result = Ok(Integer(SumOf(args)))
        /\ nodes \in MinusPrograms =>
             LET args == Tail(nodes[2][2]) IN
             (\A i \in 1..Len(args) : IsIntegerArg(args[i])) =>
                 result = Ok(Integer(ArgValue(args[1]) - ArgValue(args[2])))

\* C10, amended: for Integer arguments (+ e1 .. en), n >= 2, is the Integer
\* a1 + .. + an and (- e1 e2) the Integer a1 - a2, each wrapped to the width
\* of the machine integer; identifiers are read from the environment; with
\* an argument that is no Integer the call fails.
C10_WrappedSum ==
    Done =>
        /\ nodes \in PlusPrograms =>
             LET args == Tail(nodes[2][2]) IN
             IF \A i \in 1..Len(args) : IsIntegerArg(args[i])
             THEN result = Ok(Integer(Wrap(SumOf(args))))
             ELSE result[1] = "Err"
        /\ nodes \in MinusPrograms =>
             LET args == Tail(nodes[2][2]) IN
             IF \A i \in 1..Len(args) : IsIntegerArg(args[i])
             THEN result = Ok(Integer(Wrap(ArgValue(args[1]) - ArgValue(args[2]))))
             ELSE result[1] = "Err"
        /\ nodes = test_global_variables => result = Ok(Integer(6))

\* (define x 2) (+ MaxInt x 1) has wrapped round to MinInt + 2
C10_Witness ==
    /\ Done
    /\ nodes = <<Define("x", Num(2)), Call("+", <<Num(MaxInt), Id("x"), Num(1)>>)>>
    /\ result = Ok(Integer(MinInt + 2))

----------------------------------------------------------------------------
(* The parser (src/parser.rs).  parse_nodes and parse_node call each other: *)
(* the machine is the one above, `ctl` the pending call or the Result it    *)
(* returned, `stack` the suspended activations.  A Token is a tagged tuple, *)
(* <<"TOpenParen">> ... <<"TIdentifier", s>>, an Option is <<"Some", x>>    *)
(* or <<"None">>.                                                           *)

\* Longest token slice the enumerated inputs reach.
MaxTokens == 5

TOpenParen == <<"TOpenParen">>

TCloseParen == <<"TCloseParen">>

TQuote == <<"TQuote">>

TQuasiquote == <<"TQuasiquote">>

TUnquote == <<"TUnquote">>

TIdentifier(v) == <<"TIdentifier", v>>

TInteger(v) == <<"TInteger", v>>

TBoolean(v) == <<"TBoolean", v>>

TString(v) == <<"TString", v>>

Some(x) == <<"Some", x>>

None == <<"None">>

\* parse_error!(fmt, depth): Err(ParseError { message: format!(fmt, depth) })
parse_error(fmt, depth) == <<"Err", fmt \o ToString(depth)>>

\* impl fmt::Show for ParseError
ParseError_fmt(err) == "ParseError: " \o err[2]

open_depth_same(depth) == depth

\* self.parse_nodes(depth + 1)
open_depth(depth) == depth + 1

\* Parser::parse: the iterator at the first token, parse_nodes(0)
parse_nodes ==
    /\ ctl[1] = "parse_nodes"
    /\ ctl' = <<"parse_node", ctl[2]>>
    /\ stack' = Append(stack, <<"parse_nodes", ctl[2], <<>>>>)
    /\ UNCHANGED <<tokens, applied, nodes, heap, trace, result>>

\* match try!(self.parse_node(depth)): Some(node) is pushed and the loop goes
\* on, None returns the vec
parse_nodes_next ==
    /\ ctl[1] = "Ok"
    /\ Len(stack) > 0
    /\ Top[1] = "parse_nodes"
    /\ LET depth == Top[2]  vec == Top[3] IN
       IF ctl[2][1] = "Some"
       THEN /\ ctl' = <<"parse_node", depth>>
            /\ stack' = Append(Rest, <<"parse_nodes", depth, Append(vec, ctl[2][2])>>)
       ELSE /\ ctl' = Ok(vec)
            /\ stack' = Rest
    /\ UNCHANGED <<tokens, applied, nodes, heap, trace, result>>

\* The identifier a quoting token stands for, and the word of its error.
quote_name(token) ==
    CASE token = TQuote -> "quote"
      [] token = TQuasiquote -> "quasiquote"
      [] token = TUnquote -> "unquote"

quote_word(token) ==
    CASE token = TQuote -> "quoted"
      [] token = TQuasiquote -> "quasiquoted"
      [] token = TUnquote -> "unquoted"

\* match self.tokens.next()
parse_node ==
    /\ ctl[1] = "parse_node"
    /\ LET depth == ctl[2]  slice == tokens[1]  i == tokens[2] IN
       IF i > Len(slice)
       THEN /\ tokens' = tokens
            /\ stack' = stack
            /\ ctl' = IF depth = 0
                      THEN Ok(None)
                      ELSE parse_error("Unexpected end of input, depth: ", depth)
       ELSE LET token == slice[i] IN
            /\ tokens' = <<slice, i + 1>>
            /\ CASE token = TOpenParen ->
                      /\ ctl' = <<"parse_nodes", open_depth(depth)>>
                      /\ stack' = Append(stack, <<"parse_node_list", depth>>)
                 [] token = TCloseParen ->
                      /\ ctl' = IF depth > 0
                                THEN Ok(None)
                                ELSE parse_error("Unexpected close paren, depth: ", depth)
                      /\ stack' = stack
                 [] token \in {TQuote, TQuasiquote, TUnquote} ->
                      /\ ctl' = <<"parse_node", depth>>
                      /\ stack' = Append(stack, <<"parse_node_quote", token, depth>>)
                 [] token[1] = "TIdentifier" ->
                      /\ ctl' = Ok(Some(parser_Identifier(token[2])))
                      /\ stack' = stack
                 [] token[1] = "TInteger" ->
                      /\ ctl' = Ok(Some(parser_Integer(token[2])))
                      /\ stack' = stack
                 [] token[1] = "TBoolean" ->
                      /\ ctl' = Ok(Some(parser_Boolean(token[2])))
                      /\ stack' = stack
                 [] token[1] = "TString" ->
                      /\ ctl' = Ok(Some(parser_String(token[2])))
                      /\ stack' = stack
    /\ UNCHANGED <<applied, nodes, heap, trace, result>>

\* let inner = try!(self.parse_nodes(depth + 1)); Ok(Some(NList(inner)))
parse_node_list ==
    /\ ctl[1] = "Ok"
    /\ Len(stack) > 0
    /\ Top[1] = "parse_node_list"
    /\ ctl' = Ok(Some(parser_List(ctl[2])))
    /\ stack' = Rest
    /\ UNCHANGED <<tokens, applied, nodes, heap, trace, result>>

\* match try!(self.parse_node(depth)): Some(inner) is wrapped in the list
\* (quote inner), None is the error of the missing value
parse_node_quote ==
    /\ ctl[1] = "Ok"
    /\ Len(stack) > 0
    /\ Top[1] = "parse_node_quote"
    /\ LET token == Top[2]  depth == Top[3] IN
       ctl' = IF ctl[2][1] = "Some"
              THEN Ok(Some(parser_List(<<parser_Identifier(quote_name(token)),
                                         ctl[2][2]>>)))
              ELSE parse_error("Missing " \o quote_word(token) \o " value, depth: ",
                               depth)
    /\ stack' = Rest
    /\ UNCHANGED <<tokens, applied, nodes, heap, trace, result>>

\* try!(e) in parse_nodes and parse_node: Err(e) => return Err(e)
parse_try_err ==
    /\ ctl[1] = "Err"
    /\ Len(stack) > 0
    /\ Top[1] \in {"parse_nodes", "parse_node_list", "parse_node_quote"}
    /\ ctl' = ctl
    /\ stack' = Rest
    /\ UNCHANGED <<tokens, applied, nodes, heap, trace, result>>

\* parse returns what parser.parse_nodes(0) returned
parse_return ==
    /\ ctl[1] \in {"Ok", "Err"}
    /\ Len(stack) = 0
    /\ result = <<"None">>
    /\ result' = ctl
    /\ UNCHANGED <<tokens, applied, nodes, heap, ctl, stack, trace>>

----------------------------------------------------------------------------
(* The token slices parse is run on.                                       *)

TokenAlphabet == {TOpenParen, TCloseParen, TQuote, TUnquote, TIdentifier("a")}

RECURSIVE SlicesOf(_, _)
SlicesOf(S, n) ==
    IF n = 0 THEN {<<>>}
    ELSE LET shorter == SlicesOf(S, n - 1) IN
         shorter \cup {Append(ts, t) : ts \in {x \in shorter : Len(x) = n - 1}, t \in S}

test_simple == <<TOpenParen, TIdentifier("+"), TCloseParen>>

test_nested ==
    <<TOpenParen, TIdentifier("+"), TOpenParen, TIdentifier("+"), TInteger(1),
      TOpenParen, TIdentifier("+"), TInteger(3), TInteger(4), TCloseParen,
      TCloseParen, TInteger(5), TCloseParen>>

test_quoting ==
    <<TOpenParen, TIdentifier("list"), TQuote, TIdentifier("a"), TIdentifier("b"),
      TCloseParen>>

test_quasiquoting ==
    <<TQuasiquote, TOpenParen, TUnquote, TIdentifier("a"), TIdentifier("b"),
      TUnquote, TIdentifier("c"), TCloseParen>>

test_bad_syntax ==
    <<TOpenParen, TOpenParen, TCloseParen, TOpenParen, TOpenParen, TCloseParen>>

FixedSlices ==
    { test_simple, test_nested, test_quoting, test_quasiquoting, test_bad_syntax,
      <<TQuasiquote>>, <<TOpenParen, TQuasiquote, TCloseParen>>,
      <<TQuasiquote, TBoolean(TRUE), TString("s"), TCloseParen>>,
      <<TOpenParen, TString("s"), TBoolean(FALSE), TInteger(2), TQuasiquote>> }

Slices == SlicesOf(TokenAlphabet, MaxTokens) \cup FixedSlices

ParserInit ==
    /\ tokens \in {<<slice, 1>> : slice \in Slices}
    /\ ctl = <<"parse_nodes", 0>>
    /\ stack = <<>>
    /\ result = <<"None">>
    /\ applied = FALSE
    /\ nodes = <<>>
    /\ heap = <<>>
    /\ trace = <<>>

ParserNext ==
    \/ parse_nodes
    \/ parse_nodes_next
    \/ parse_node
    \/ parse_node_list
    \/ parse_node_quote
    \/ parse_try_err
    \/ parse_return

ParserSpec == ParserInit /\ [][ParserNext]_vars

----------------------------------------------------------------------------
(* C11.  The slice is read off the input alone, by counting: no tree is    *)
(* built.                                                                  *)

IsQuoting(token) == token \in {TQuote, TQuasiquote, TUnquote}

\* Open-parens less close-parens among the first n tokens.
RECURSIVE DepthAfter(_, _)
DepthAfter(ts, n) ==
    IF n = 0 THEN 0
    ELSE DepthAfter(ts, n - 1)
         + (IF ts[n] = TOpenParen THEN 1 ELSE IF ts[n] = TCloseParen THEN 0 - 1 ELSE 0)

\* Every close-paren matches an earlier unmatched open-paren.
ClosesMatch(ts) == \A n \in 1..Len(ts) : DepthAfter(ts, n) >= 0

\* Every open-paren is closed before the input ends.
OpensClosed(ts) == DepthAfter(ts, Len(ts)) <= 0

\* Every quoting token is directly followed by a datum at its depth: by a
\* token, and not by the close-paren of the list it is in.
QuotesFollowed(ts) ==
    \A n \in 1..Len(ts) :
        IsQuoting(ts[n]) => (n < Len(ts) /\ ts[n + 1] # TCloseParen)

\* The close-paren at n has no open-paren to match, or closes a list right
\* after a quoting token.
Offends(ts, n) ==
    /\ ts[n] = TCloseParen
    /\ \/ DepthAfter(ts, n - 1) = 0
       \/ (n > 1 /\ IsQuoting(ts[n - 1]))

\* parse reaches token n: nothing before it offends.
Met(ts, n) == \A m \in 1..(n - 1) : ~Offends(ts, m)

ParseResults ==
    Done =>
      LET ts == tokens[1] IN
      /\ (result[1] = "Ok") <=> (ClosesMatch(ts) /\ OpensClosed(ts) /\ QuotesFollowed(ts))
      /\ \A n \in 1..Len(ts) :
            (Met(ts, n) /\ ts[n] = TCloseParen /\ DepthAfter(ts, n - 1) = 0) =>
                result = <<"Err", "Unexpected close paren, depth: 0">>
      /\ (Met(ts, Len(ts) + 1) /\ DepthAfter(ts, Len(ts)) > 0) =>
            result = <<"Err", "Unexpected end of input, depth: "
                              \o ToString(DepthAfter(ts, Len(ts)))>>

\* The assertions of the tests of src/parser.rs.
ParserTests ==
    Done =>
      /\ tokens[1] = test_simple => result = Ok(<<Call("+", <<>>)>>)
      /\ tokens[1] = test_nested =>
            result = Ok(<<Call("+", <<Call("+", <<Num(1), Call("+", <<Num(3), Num(4)>>)>>),
                                      Num(5)>>)>>)
      /\ tokens[1] = test_quoting =>
            result = Ok(<<Call("list", <<Call("quote", <<Id("a")>>), Id("b")>>)>>)
      /\ tokens[1] = test_quasiquoting =>
            result = Ok(<<Call("quasiquote",
                               <<Ls(<<Call("unquote", <<Id("a")>>), Id("b"),
                                      Call("unquote", <<Id("c")>>)>>)>>)>>)
      /\ tokens[1] = <<TCloseParen>> =>
            ParseError_fmt(result) = "ParseError: Unexpected close paren, depth: 0"
      /\ tokens[1] = <<TOpenParen, TOpenParen, TCloseParen>> =>
            ParseError_fmt(result) = "ParseError: Unexpected end of input, depth: 1"
      /\ tokens[1] = <<TOpenParen, TCloseParen, TCloseParen>> =>
            ParseError_fmt(result) = "ParseError: Unexpected close paren, depth: 0"
      /\ tokens[1] = test_bad_syntax =>
            ParseError_fmt(result) = "ParseError: Unexpected end of input, depth: 2"

\* C11: parse succeeds exactly when every close-paren matches an earlier
\* unmatched open-paren, every open-paren is closed before the input ends and
\* every quoting token is directly followed by a datum at its depth; a
\* close-paren met at depth 0 fails with "Unexpected close paren, depth: 0",
\* the end of the input met with d > 0 lists open fails with "Unexpected end
\* of input, depth: d".
C11_ParseTracksDepth == ParseResults /\ ParserTests

\* ( ' ( ) ( : the quoted list is closed, the end comes with two lists open
C11_Witness ==
    /\ Done
    /\ tokens[1] = <<TOpenParen, TQuote, TOpenParen, TCloseParen, TOpenParen>>
    /\ result = <<"Err", "Unexpected end of input, depth: 2">>

----------------------------------------------------------------------------
(* C12.                                                                    *)

\* The model stops following a run only when it has returned, but for the
\* self-applications, which it follows until MaxStack activations are
\* suspended.
OnlyRunawayCutShort == Done \/ ENABLED Next \/ nodes \in RunawayPrograms

\* In the self-applications no call of the user procedure returns: the
\* frame of every call stays, interpret has not returned.
RunawayNeverReturns ==
    /\ [](nodes \in RunawayPrograms => ~Done)
    /\ [][(nodes \in RunawayPrograms) => (Len(heap') >= Len(heap))]_vars

\* C12: interpret returns a Value or a RuntimeError on every program during
\* whose evaluation no user procedure is applied, whatever the nesting of
\* builtins, special forms, quote, quasiquote and literals; a run that does
\* not return has applied a user procedure, as (define f (lambda (x) (f x)))
\* (f 1) does, which never returns.
C12_TerminatesWithoutUserCalls ==
    /\ <>(Done \/ applied)
    /\ []OnlyRunawayCutShort
    /\ RunawayNeverReturns

\* (+ 1 (+ 1 ... (+ 1 1))), as deep as the model follows, has returned
C12_Witness ==
    /\ Done
    /\ ~applied
    /\ nodes = <<Nested("+", MaxStack - 2, Num(1))>>
    /\ result = Ok(Integer(MaxStack - 1))

====
